---- MODULE Spec2Model ----
(***************************************************************************)
(* The credential matcher of src/src/lib.rs: one invocation of main(),     *)
(* from fetching the request and the catalog container from the host to    *)
(* the last AddExportEntry call.                                           *)
(*                                                                         *)
(* Strings are sequences of character codes (0 is NUL).  An Option<T> is   *)
(* a record [some, val].  A usize is the 32-bit word of the wasm32 target, *)
(* kept as the pair <<high half, low half>> of 16-bit halves so that its   *)
(* wrap-around is computed exactly.                                        *)
(***************************************************************************)
EXTENDS Integers, Sequences, FiniteSets, TLC

\* ------------------------------------------------------------------ bounds
\* The number of icon-size words the enumerated containers reserve.
MaxIcons == 2
\* The longest "entries" array of the enumerated catalogs.
MaxEntries == 2

\* ------------------------------------------------------- program constants
\* The three header words: "if credentials_buffer.len() < 12".
HeaderLen == 12
\* The width of one i32: "&buffer[offset..offset+4]".
WordLen == 4
\* Half the range of a usize of the wasm32 target (2^16).
Half == 65536

\* ---------------------------------------------------------------- Option
None == [some |-> FALSE, val |-> <<>>]
Some(v) == [some |-> TRUE, val |-> v]
NoIndex == [some |-> FALSE, val |-> 0]

\* ----------------------------------------------------------------- usize
\* "read_i32(..) as usize": the two's-complement reinterpretation.
AsUsize(x) == <<((x \div Half) + Half) % Half, x % Half>>

\* usize + usize, as the hardware adds: modulo 2^32.
WrappingAdd(a, b) ==
    LET lo == a[2] + b[2]
        hi == a[1] + b[1] + (lo \div Half)
    IN  <<hi % Half, lo % Half>>

\* The sum does not fit a usize ("attempt to add with overflow").
AddOverflows(a, b) == a[1] + b[1] + ((a[2] + b[2]) \div Half) >= Half

ULt(a, b) == a[1] < b[1] \/ (a[1] = b[1] /\ a[2] < b[2])
ULe(a, b) == a = b \/ ULt(a, b)

\* ---------------------------------------------------------------- strings
TypeA == <<1>>
TypeB == <<2>>
DefaultProvider == "default_provider"

\* CString::new(s): an interior NUL byte is an error.
CStringNewOk(s) == \A k \in 1..Len(s) : s[k] # 0

\* CString::new(s).unwrap_or_default(): the empty C string on error.
CStringNewOrDefault(s) == IF CStringNewOk(s) THEN s ELSE <<>>

\* Option<String>::unwrap_or_default()
UnwrapOrDefault(o) == IF o.some THEN o.val ELSE <<>>

\* Vec<String>::contains
Contains(list, s) == \E k \in 1..Len(list) : list[k] = s

\* -------------------------------------------------------- the host's data
\* The request bytes, by what their decoding finds in them: whether they are
\* UTF-8, whether NUL bytes surround the text, and the text (the empty buffer
\* of a zero GetRequestSize is a text that is no JSON).
RequestBuffers ==
    { [kind |-> "bad_utf8", nul_pad |-> FALSE, credential_types |-> None],
      [kind |-> "bad_json", nul_pad |-> FALSE, credential_types |-> None],
      [kind |-> "doc", nul_pad |-> TRUE,  credential_types |-> Some(<<TypeA>>)],
      [kind |-> "doc", nul_pad |-> FALSE, credential_types |-> None],
      [kind |-> "doc", nul_pad |-> FALSE, credential_types |-> Some(<<>>)],
      [kind |-> "doc", nul_pad |-> FALSE, credential_types |-> Some(<<TypeA>>)],
      [kind |-> "doc", nul_pad |-> FALSE,
       credential_types |-> Some(<<TypeB, TypeA, TypeA>>)] }

\* One element of the catalog's "entries" array, as the JSON text gives it.
MkEntry(id, supported, user, icon, account) ==
    [id |-> id, supported_credential_types |-> supported,
     display_info |-> [user_name |-> user, icon_id |-> icon,
                       account_name |-> account]]

TypeC == <<3>>
Plain(icon) == MkEntry(<<11>>, Some(<<TypeA>>), <<21>>, icon, None)

\* The entries the enumerated catalogs are made of: with and without each
\* optional field, with icon indexes inside and outside of the icon table,
\* with a duplicated type, with NUL characters (the JSON escape \u0000) and
\* with an icon_id that is no usize.
Entries ==
    { Plain(NoIndex), Plain(Some(0)),
      MkEntry(<<12>>, Some(<<TypeB>>), <<22>>, Some(1), Some(<<31>>)),
      MkEntry(<<13>>, Some(<<TypeC, TypeA, TypeA>>), <<21>>, Some(0), Some(<<31, 0>>)),
      MkEntry(<<14>>, None, <<21>>, NoIndex, None),
      MkEntry(<<15, 0>>, Some(<<TypeA>>), <<21>>, NoIndex, None),
      MkEntry(<<16>>, Some(<<TypeB>>), <<0, 22>>, NoIndex, None),
      MkEntry(<<17>>, Some(<<TypeA>>), <<21>>, Some(-1), None) }

RECURSIVE SeqsOf(_, _)
\* All sequences of length n over S.
SeqsOf(S, n) ==
    IF n = 0 THEN {<<>>}
    ELSE {Append(s, x) : s \in SeqsOf(S, n - 1), x \in S}

\* The "entries" field of the Credentials document: absent, or an array.
Catalogs == {None} \cup {Some(s) : s \in UNION {SeqsOf(Entries, n) : n \in 0..MaxEntries}}

\* The least number of bytes of a Credentials document: "{}", or
\* {"entries":[..]} with {"id":"","display_info":{"user_name":""}} per entry.
MinJsonBytes(entries) ==
    IF entries.some THEN 14 + 40 * Len(entries.val) ELSE 2

\* The bytes of the JSON region, by what their decoding finds in them:
\* whether they are UTF-8, whether NUL bytes surround the text, and the text.
CredsTexts(n) ==
    {[kind |-> k, nul_pad |-> p, entries |-> None] :
        k \in (IF n >= 1 THEN {"bad_utf8", "bad_json"} ELSE {"bad_json"}),
        p \in (IF n >= 2 THEN BOOLEAN ELSE {FALSE})}
    \cup {[kind |-> "doc", nul_pad |-> FALSE, entries |-> c] :
        c \in {d \in Catalogs : MinJsonBytes(d) <= n}}
    \cup {[kind |-> "doc", nul_pad |-> TRUE, entries |-> c] :
        c \in {d \in Catalogs : MinJsonBytes(d) < n}}

\* A well-sized container: header, MaxIcons size words, the JSON, the icons.
GoodHeader == HeaderLen + WordLen * MaxIcons
SmallCreds == MinJsonBytes(None)
BigCreds == MinJsonBytes(Some([k \in 1..(MaxEntries + 2) |-> 0]))
IconBytes == WordLen * MaxIcons
FullLen == GoodHeader + BigCreds + IconBytes

HeaderSizes == {GoodHeader, FullLen, -1}
CredsSizes == {0, SmallCreds, BigCreds, BigCreds + IconBytes + 1, -1}
IconCounts == (0..(MaxIcons + 1)) \cup {-1}
IconSizes == {4, -1, 1000}

\* The catalog bytes: the length and the aligned 32-bit words main() can read.
\* Buffers longer than the header and its size table are enumerated only with
\* icon counts the table holds.
CredentialsBuffers ==
    {[len |-> 0, words |-> <<>>], [len |-> 8, words |-> <<GoodHeader, 0>>]}
    \cup {[len |-> HeaderLen, words |-> <<h, c, n>>] :
            h \in HeaderSizes, c \in CredsSizes, n \in IconCounts}
    \cup {[len |-> GoodHeader, words |-> <<h, c, n>> \o t] :
            h \in {GoodHeader}, c \in {0, -1}, n \in IconCounts,
            t \in SeqsOf({0, -1}, MaxIcons)}
    \cup {[len |-> FullLen, words |-> <<h, c, n>> \o t] :
            h \in HeaderSizes, c \in CredsSizes, n \in 0..MaxIcons,
            t \in SeqsOf(IconSizes, MaxIcons)}

\* ------------------------------------------------------------ conversions
\* read_i32's slice &buffer[offset..offset+4] is inside the buffer.
ReadInBounds(buffer, offset) == offset + WordLen <= buffer.len

\* read_i32: the word at an aligned offset.
read_i32(buffer, offset) == buffer.words[(offset \div WordLen) + 1]

\* std::str::from_utf8
FromUtf8Ok(text) == text.kind # "bad_utf8"

\* str::trim_matches(char::from(0))
TrimNul(text) == [text EXCEPT !.nul_pad = FALSE]

\* serde_json::from_str::<Request>: NUL characters around the text, a text
\* that is no JSON (the empty text too) are errors.
RequestFromStrOk(text) == text.kind = "doc" /\ ~text.nul_pad

\* Every icon_id of the document is a usize.
IconIdsAreUsize(entries) ==
    entries.some =>
        \A k \in 1..Len(entries.val) :
            LET icon == entries.val[k].display_info.icon_id
            IN  icon.some => icon.val >= 0

\* serde_json::from_str::<Credentials>
CredentialsFromStrOk(text) ==
    text.kind = "doc" /\ ~text.nul_pad /\ IconIdsAreUsize(text.entries)

\* ------------------------------------------------------------------ state
VARIABLES
    pc,                  \* the position of main()
    from,                \* history: the position the last step was taken at
    overflow_checks,     \* the build profile: overflow panics, or wraps
    request_buffer,      \* the request bytes fetched from the host
    credentials_buffer,  \* the catalog bytes fetched from the host
    app_info,            \* the CallingAppInfo the host filled in
    app_info_calls,      \* the GetCallingAppInfo calls made so far
    header_size, creds_size, icon_count,
    icon_offsets,        \* Vec<(usize, usize)>: (offset, length) per icon
    current_icon_start,
    i,                   \* the index of "for i in 0..icon_count"
    reads,               \* the offsets read_i32 has read
    request_json,        \* Request.credential_types
    creds_json,          \* Credentials.entries
    entry_index,         \* the position of "for entry in entries"
    exported,            \* the AddExportEntry calls made so far, in order
    status               \* main()'s return value; -1 until it returns

vars == <<pc, from, overflow_checks, request_buffer, credentials_buffer,
          app_info, app_info_calls, header_size, creds_size, icon_count, icon_offsets,
          current_icon_start, i, reads, request_json, creds_json,
          entry_index, exported, status>>

host_vars == <<request_buffer, credentials_buffer, app_info, app_info_calls>>
header_vars == <<header_size, creds_size, icon_count>>
table_vars == <<icon_offsets, current_icon_start, i>>
json_vars == <<request_json, creds_json>>
match_vars == <<entry_index, exported>>

Zero == <<0, 0>>

\* CallingAppInfo { package_name: [0; 256], origin: [0; 512] }
ZeroedAppInfo == [package_name |-> <<>>, origin |-> <<>>]

\* What the host may write into it.
AppInfos ==
    { [package_name |-> <<41>>, origin |-> <<>>],
      [package_name |-> <<42>>, origin |-> <<43>>] }

Init ==
    /\ pc = "get_request"
    /\ from = "start"
    /\ overflow_checks \in BOOLEAN
    /\ request_buffer = [kind |-> "bad_json", nul_pad |-> FALSE,
                         credential_types |-> None]
    /\ credentials_buffer = [len |-> 0, words |-> <<>>]
    /\ app_info = ZeroedAppInfo
    /\ app_info_calls = 0
    /\ header_size = Zero /\ creds_size = Zero /\ icon_count = Zero
    /\ icon_offsets = <<>>
    /\ current_icon_start = Zero
    /\ i = 0
    /\ reads = {}
    /\ request_json = None
    /\ creds_json = None
    /\ entry_index = 1
    /\ exported = <<>>
    /\ status = -1

\* "return 0"
Return ==
    /\ pc' = "done"
    /\ status' = 0

\* A panic aborts the invocation: main() never returns.
Panic ==
    /\ pc' = "panic"
    /\ status' = status

\* get_buffer_from_host(GetRequestSize, GetRequestBuffer)
GetRequest ==
    /\ pc = "get_request"
    /\ from' = pc
    /\ request_buffer' \in RequestBuffers
    /\ pc' = "get_credentials"
    /\ UNCHANGED <<overflow_checks, credentials_buffer, app_info,
                   app_info_calls, header_vars, table_vars, reads, json_vars, match_vars,
                   status>>

\* GetCredentialsSize, ReadCredentialsBuffer
GetCredentials ==
    /\ pc = "get_credentials"
    /\ from' = pc
    /\ credentials_buffer' \in CredentialsBuffers
    /\ pc' = "get_app_info"
    /\ UNCHANGED <<overflow_checks, request_buffer, app_info,
                   app_info_calls, header_vars, table_vars, reads, json_vars, match_vars,
                   status>>

\* A faulty variant of HeaderTooShort: the check counts two header words, not three.
HeaderTooShortOfTwo(buffer) == buffer.len < 2 * WordLen

\* "if credentials_buffer.len() < 12 { return 0; }"
HeaderTooShort(buffer) == buffer.len < HeaderLen

\* A faulty variant of GetAppInfo: the call is made only once the header's safety
\* check has passed.
GetAppInfoAfterCheck ==
    /\ pc = "get_app_info"
    /\ from' = pc
    /\ IF HeaderTooShort(credentials_buffer)
       THEN UNCHANGED <<app_info, app_info_calls>>
       ELSE /\ app_info' \in AppInfos
            /\ app_info_calls' = app_info_calls + 1
    /\ pc' = "parse_header"
    /\ UNCHANGED <<overflow_checks, request_buffer, credentials_buffer,
                   header_vars, table_vars, reads, json_vars, match_vars,
                   status>>

\* GetCallingAppInfo(&mut app_info); app_info is never read afterwards.
GetAppInfo ==
    /\ pc = "get_app_info"
    /\ from' = pc
    /\ app_info' \in AppInfos
    /\ app_info_calls' = app_info_calls + 1
    /\ pc' = "parse_header"
    /\ UNCHANGED <<overflow_checks, request_buffer, credentials_buffer,
                   header_vars, table_vars, reads, json_vars, match_vars,
                   status>>

\* usize + usize under the build profile: [ok, val].
CheckedAdd(a, b) ==
    [ok |-> ~(overflow_checks /\ AddOverflows(a, b)), val |-> WrappingAdd(a, b)]

\* The safety check, the three header words and the start of the icon block.
ParseHeader ==
    /\ pc = "parse_header"
    /\ from' = pc
    /\ IF HeaderTooShort(credentials_buffer)
       THEN /\ Return
            /\ UNCHANGED <<header_vars, table_vars, reads>>
       ELSE IF \E o \in {0, 4, 8} : ~ReadInBounds(credentials_buffer, o)
       THEN /\ Panic
            /\ UNCHANGED <<header_vars, table_vars, reads>>
       ELSE LET h == AsUsize(read_i32(credentials_buffer, 0))
                c == AsUsize(read_i32(credentials_buffer, 4))
                n == AsUsize(read_i32(credentials_buffer, 8))
                start == CheckedAdd(h, c)
            IN  /\ header_size' = h
                /\ creds_size' = c
                /\ icon_count' = n
                /\ reads' = reads \cup {0, 4, 8}
                /\ UNCHANGED <<icon_offsets, i>>
                /\ IF start.ok
                   THEN /\ current_icon_start' = start.val
                        /\ pc' = "icon_loop"
                        /\ status' = status
                   ELSE /\ Panic
                        /\ UNCHANGED current_icon_start
    /\ UNCHANGED <<overflow_checks, host_vars, json_vars, match_vars>>

\* "12 + (i * 4)"
SizeOffset(k) == HeaderLen + (k * WordLen)

\* One pass of "for i in 0..icon_count", or the loop's end.
IconLoop ==
    /\ pc = "icon_loop"
    /\ from' = pc
    /\ IF ~ULt(AsUsize(i), icon_count)
       THEN /\ pc' = "parse_request"
            /\ UNCHANGED <<table_vars, reads, status>>
       ELSE IF ~ReadInBounds(credentials_buffer, SizeOffset(i))
       THEN /\ Panic
            /\ UNCHANGED <<table_vars, reads>>
       ELSE LET this_icon_size == AsUsize(read_i32(credentials_buffer, SizeOffset(i)))
                next == CheckedAdd(current_icon_start, this_icon_size)
            IN  /\ reads' = reads \cup {SizeOffset(i)}
                /\ icon_offsets' =
                       Append(icon_offsets, <<current_icon_start, this_icon_size>>)
                /\ IF next.ok
                   THEN /\ current_icon_start' = next.val
                        /\ i' = i + 1
                        /\ UNCHANGED <<pc, status>>
                   ELSE /\ Panic
                        /\ UNCHANGED <<current_icon_start, i>>
    /\ UNCHANGED <<overflow_checks, host_vars, header_vars, json_vars, match_vars>>

\* from_utf8 and serde_json::from_str on the request bytes.
ParseRequest ==
    /\ pc = "parse_request"
    /\ from' = pc
    /\ IF FromUtf8Ok(request_buffer) /\ RequestFromStrOk(request_buffer)
       THEN /\ request_json' = request_buffer.credential_types
            /\ pc' = "parse_credentials"
            /\ status' = status
       ELSE /\ Return
            /\ UNCHANGED request_json
    /\ UNCHANGED <<overflow_checks, host_vars, header_vars, table_vars, reads,
                   creds_json, match_vars>>

\* "if header_size >= credentials_buffer.len() { return 0; }"
HeaderPastBuffer(h, buffer) == ULe(AsUsize(buffer.len), h)

\* &credentials_buffer[header_size..json_end] is a slice of the buffer.
SliceInBounds(start, end, buffer) ==
    ULe(start, end) /\ ULe(end, AsUsize(buffer.len))

\* The length of a slice within the buffer (both ends are below 2^16 here).
SliceLen(start, end) == end[2] - start[2]

\* The bounds check, the JSON slice, from_utf8, trim_matches and from_str.
ParseCredentials ==
    /\ pc = "parse_credentials"
    /\ from' = pc
    /\ LET json_end == CheckedAdd(header_size, creds_size)
       IN  IF HeaderPastBuffer(header_size, credentials_buffer)
           THEN /\ Return
                /\ UNCHANGED creds_json
           ELSE IF ~json_end.ok
                   \/ ~SliceInBounds(header_size, json_end.val, credentials_buffer)
           THEN /\ Panic
                /\ UNCHANGED creds_json
           ELSE \E text \in CredsTexts(SliceLen(header_size, json_end.val)) :
                    IF FromUtf8Ok(text) /\ CredentialsFromStrOk(TrimNul(text))
                    THEN /\ creds_json' = text.entries
                         /\ pc' = "match"
                         /\ status' = status
                    ELSE /\ Return
                         /\ UNCHANGED creds_json
    /\ UNCHANGED <<overflow_checks, host_vars, header_vars, table_vars, reads,
                   request_json, match_vars>>

\* The inner loop: some supported type is among the requested types.
Matched(req_types, entry) ==
    /\ entry.supported_credential_types.some
    /\ \E k \in 1..Len(entry.supported_credential_types.val) :
           Contains(req_types, entry.supported_credential_types.val[k])

\* "if icon_idx < icon_offsets.len()" under "if let Some(icon_idx)"
IconInTable(icon_id, table) == icon_id.some /\ icon_id.val < Len(table)

NullIcon == [null |-> TRUE, offset |-> Zero, len |-> Zero]

\* A faulty variant of IconOf: an index beyond the table takes the table's last icon.
IconOfClamped(icon_id, table) ==
    IF icon_id.some /\ Len(table) > 0
    THEN LET k == IF icon_id.val < Len(table) THEN icon_id.val + 1 ELSE Len(table)
         IN  [null |-> FALSE, offset |-> table[k][1], len |-> table[k][2]]
    ELSE NullIcon

\* icon_ptr and icon_len: the table's pair, or the null pointer and 0.
IconOf(icon_id, table) ==
    IF IconInTable(icon_id, table)
    THEN [null |-> FALSE, offset |-> table[icon_id.val + 1][1],
          len |-> table[icon_id.val + 1][2]]
    ELSE NullIcon

\* credentials_buffer.as_ptr().add(offset) leaves the allocation: undefined.
PtrAddUndefined(icon, buffer) ==
    ~icon.null /\ ULt(AsUsize(buffer.len), icon.offset)

\* A faulty variant of ExportEntry: the account name goes to the username parameter
\* and the user name to the display_name parameter.
ExportEntrySwapped(entry, k, table) ==
    [entry |-> k,
     cred_id |-> entry.id,
     icon |-> IconOf(entry.display_info.icon_id, table),
     username |->
         CStringNewOrDefault(UnwrapOrDefault(entry.display_info.account_name)),
     provider_name |-> DefaultProvider,
     display_name |-> entry.display_info.user_name]

\* The arguments of one AddExportEntry call (entry: the entry's position).
ExportEntry(entry, k, table) ==
    [entry |-> k,
     cred_id |-> entry.id,
     icon |-> IconOf(entry.display_info.icon_id, table),
     username |-> entry.display_info.user_name,
     provider_name |-> DefaultProvider,
     display_name |->
         CStringNewOrDefault(UnwrapOrDefault(entry.display_info.account_name))]

\* A faulty variant of Emit: the newest call is put first.
EmitFirst(calls, call) == <<call>> \o calls

\* The AddExportEntry call, appended to the calls the host has received.
Emit(calls, call) == Append(calls, call)

\* The loops "if let Some(req_types)", "if let Some(entries)", "for entry".
LoopDone ==
    \/ ~request_json.some
    \/ ~creds_json.some
    \/ entry_index > Len(creds_json.val)

\* One pass of "for entry in entries": the match and the export.
MatchEntry ==
    /\ pc = "match"
    /\ from' = pc
    /\ ~LoopDone
    /\ LET entry == creds_json.val[entry_index]
           call == ExportEntry(entry, entry_index, icon_offsets)
       IN  IF ~Matched(request_json.val, entry)
           THEN /\ entry_index' = entry_index + 1
                /\ UNCHANGED <<pc, exported, status>>
           ELSE IF ~CStringNewOk(entry.id)
                   \/ ~CStringNewOk(entry.display_info.user_name)
           THEN /\ Panic
                /\ UNCHANGED match_vars
           ELSE \/ /\ exported' = Emit(exported, call)
                   /\ entry_index' = entry_index + 1
                   /\ UNCHANGED <<pc, status>>
                \/ /\ PtrAddUndefined(call.icon, credentials_buffer)
                   /\ Panic
                   /\ UNCHANGED match_vars
    /\ UNCHANGED <<overflow_checks, host_vars, header_vars, table_vars, reads,
                   json_vars>>

\* The end of the loops: main() returns 0.
Finish ==
    /\ pc = "match"
    /\ from' = pc
    /\ LoopDone
    /\ Return
    /\ UNCHANGED <<overflow_checks, host_vars, header_vars, table_vars, reads,
                   json_vars, match_vars>>

Next ==
    \/ GetRequest
    \/ GetCredentials
    \/ GetAppInfo
    \/ ParseHeader
    \/ IconLoop
    \/ ParseRequest
    \/ ParseCredentials
    \/ MatchEntry
    \/ Finish

Spec == Init /\ [][Next]_vars

\* ------------------------------------------------------------ properties
Range(seq) == {seq[k] : k \in 1..Len(seq)}

\* main() has returned or aborted.
Terminated == pc \in {"done", "panic"}

\* The request's credentialTypes, as a set (absent: empty).
Requested == IF request_json.some THEN Range(request_json.val) ELSE {}

\* The decoded catalog's entries (absent: none).
CatalogEntries == IF creds_json.some THEN creds_json.val ELSE <<>>

\* Entry k supports one of the requested types.
Qualifies(k) ==
    LET supported == CatalogEntries[k].supported_credential_types
    IN  supported.some /\ Range(supported.val) \cap Requested # {}

\* The AddExportEntry calls made for entry k.
ExportsOf(k) == {j \in 1..Len(exported) : exported[j].entry = k}

\* The entries whose pass of the loop is over.
Evaluated == 1..(entry_index - 1)

\* Entry k names no icon of the icon table.
NoIconInTable(k) ==
    LET icon == CatalogEntries[k].display_info.icon_id
    IN  ~icon.some \/ icon.val >= Len(icon_offsets)

\* A usize that is a negative i32.
IsNegative(u) == u[1] >= Half \div 2

\* offset + length, as numbers, is beyond the catalog buffer.
PastBuffer(offset, length) ==
    \/ AddOverflows(offset, length)
    \/ ULt(AsUsize(credentials_buffer.len), WrappingAdd(offset, length))

NoNul(str) == 0 \notin Range(str)

\* C1: when the request and the catalog both decode, an entry is exported
\* if and only if it supports a requested type: a qualifying entry exactly
\* once, any other entry never.
C1_ExportedIffQualifies ==
    (Terminated /\ from = "match") =>
        \A k \in 1..Len(CatalogEntries) :
            Cardinality(ExportsOf(k)) = IF Qualifies(k) THEN 1 ELSE 0

\* C2: whatever the request and catalog bytes are, the invocation never
\* aborts on a read or a slice outside the catalog buffer: it runs to
\* completion.
C2_NeverAborts == pc # "panic"

\* C3: for a catalog buffer of at least 12 bytes whose header_size +
\* creds_size exceeds the buffer length, the invocation that comes to locate
\* the JSON region does not slice it and does not abort: it ends with status
\* 0 and no export.
C3_OversizedJsonRegionFailsSafe ==
    ( /\ Terminated
      /\ from = "parse_credentials"
      /\ credentials_buffer.len >= HeaderLen
      /\ PastBuffer(header_size, creds_size) ) =>
        (pc = "done" /\ status = 0 /\ exported = <<>>)

\* An icon-size word is negative, or the running offset plus the word is
\* beyond the buffer.
CorruptIconTable ==
    \E k \in 1..Len(icon_offsets) :
        \/ IsNegative(icon_offsets[k][2])
        \/ PastBuffer(icon_offsets[k][1], icon_offsets[k][2])

\* C4: a corrupt icon table means no export at all, so every non-empty icon
\* that is exported lies within the catalog buffer.
C4_CorruptIconTableExportsNothing ==
    /\ CorruptIconTable => exported = <<>>
    /\ \A j \in 1..Len(exported) :
           exported[j].icon.len # Zero =>
               ~PastBuffer(exported[j].icon.offset, exported[j].icon.len)

\* C5: the exports follow the catalog's order, and each is issued during
\* its entry's pass of the loop: once a qualifying entry's pass is over its
\* export has been made, before any later entry is looked at.
C5_ExportsInCatalogOrder ==
    /\ \A a, b \in 1..Len(exported) :
           a < b => exported[a].entry < exported[b].entry
    /\ \A a \in 1..Len(exported) : exported[a].entry \in Evaluated
    /\ \A k \in Evaluated : Qualifies(k) => ExportsOf(k) # {}

\* C5's case: both entries of a catalog were exported, the first one first.
C5_Witness ==
    /\ pc = "done"
    /\ Len(exported) = 2
    /\ exported[1].entry = 1
    /\ exported[2].entry = 2

\* The entries of two exports differ in nothing but the icon_id.
SameButIcon(e1, e2) ==
    [e1 EXCEPT !.display_info.icon_id = NoIndex]
        = [e2 EXCEPT !.display_info.icon_id = NoIndex]

\* C6: an export's icon is the icon table's pair at icon_id when icon_id is
\* present and below the table's length; otherwise the export is still made,
\* with the null, zero-length icon, and its other fields are those of the
\* same entry with an icon.
C6_IconResolved ==
    /\ \A j \in 1..Len(exported) :
           LET r == exported[j]
               icon == CatalogEntries[r.entry].display_info.icon_id
           IN  IF NoIconInTable(r.entry)
               THEN r.icon.null /\ r.icon.len = Zero
               ELSE /\ ~r.icon.null
                    /\ <<r.icon.offset, r.icon.len>> = icon_offsets[icon.val + 1]
    /\ \A j1, j2 \in 1..Len(exported) :
           LET r1 == exported[j1]
               r2 == exported[j2]
           IN  SameButIcon(CatalogEntries[r1.entry], CatalogEntries[r2.entry]) =>
                   /\ r1.cred_id = r2.cred_id
                   /\ r1.username = r2.username
                   /\ r1.provider_name = r2.provider_name
                   /\ r1.display_name = r2.display_name
    /\ \A k \in Evaluated :
           (Qualifies(k) /\ NoIconInTable(k)) =>
               \E j \in ExportsOf(k) : exported[j].icon.null

\* C6's case: an export with an icon_id beyond the icon table, and in the
\* same invocation an export with an icon of the table.
C6_Witness ==
    \E j1, j2 \in 1..Len(exported) :
        /\ CatalogEntries[exported[j1].entry].display_info.icon_id.some
        /\ NoIconInTable(exported[j1].entry)
        /\ exported[j1].icon.null
        /\ ~NoIconInTable(exported[j2].entry)
        /\ ~exported[j2].icon.null

\* C7: when the icon loop is over, the icon table has icon_count entries, the
\* first at header_size + creds_size, each later one at the end of the one
\* before it.
C7_IconTableContiguous ==
    pc = "parse_request" =>
        /\ AsUsize(Len(icon_offsets)) = icon_count
        /\ Len(icon_offsets) > 0 =>
               /\ ~AddOverflows(header_size, creds_size)
               /\ icon_offsets[1][1] = WrappingAdd(header_size, creds_size)
        /\ \A k \in 2..Len(icon_offsets) :
               /\ ~AddOverflows(icon_offsets[k - 1][1], icon_offsets[k - 1][2])
               /\ icon_offsets[k][1] =
                      WrappingAdd(icon_offsets[k - 1][1], icon_offsets[k - 1][2])

\* The catalog buffer has been fetched.
Fetched == pc \notin {"get_request", "get_credentials"}

\* C8: with a catalog buffer of fewer than 12 bytes, whatever the request,
\* no header word is read, nothing is exported, the invocation does not
\* abort, and it returns 0.
C8_ShortBufferFailsSafe ==
    (Fetched /\ credentials_buffer.len < HeaderLen) =>
        /\ reads = {}
        /\ exported = <<>>
        /\ pc \in {"get_app_info", "parse_header", "done"}
        /\ pc = "done" => status = 0

\* C8's case: the invocation has returned on a buffer of 8 bytes, with a
\* request that names a type.
C8_Witness ==
    /\ pc = "done"
    /\ status = 0
    /\ credentials_buffer.len \in 1..(HeaderLen - 1)
    /\ request_buffer.kind = "doc"
    /\ request_buffer.credential_types.some

\* C9: GetCallingAppInfo is called exactly once per invocation, also when
\* the invocation ends early, and the exported entries are those the request
\* and the catalog decide, whatever the host answered.
C9_AppInfoOnce ==
    /\ app_info_calls <= 1
    /\ pc \notin {"get_request", "get_credentials", "get_app_info"} =>
           app_info_calls = 1
    /\ {exported[j].entry : j \in 1..Len(exported)}
           = {k \in Evaluated : Qualifies(k)}

\* C9's case: the invocation ended on the truncated header, after the call.
C9_Witness ==
    /\ pc = "done"
    /\ from = "parse_header"
    /\ app_info_calls = 1

\* C10, as claimed: every export carries the provider "default_provider",
\* the entry's id and user_name, and as display_name the entry's
\* account_name when present, the empty string when absent.
C10_FieldsVerbatim ==
    \A j \in 1..Len(exported) :
        LET r == exported[j]
            e == CatalogEntries[r.entry]
            account == e.display_info.account_name
        IN  /\ r.provider_name = "default_provider"
            /\ r.cred_id = e.id
            /\ r.username = e.display_info.user_name
            /\ r.display_name = IF account.some THEN account.val ELSE <<>>

\* C10, amended: the display_name is the account_name when it is present and
\* holds no NUL character, and the empty string when it is absent or holds a
\* NUL character; the other fields are as claimed.
C10_FieldsOfExport ==
    \A j \in 1..Len(exported) :
        LET r == exported[j]
            e == CatalogEntries[r.entry]
            account == e.display_info.account_name
        IN  /\ r.provider_name = "default_provider"
            /\ r.cred_id = e.id
            /\ r.username = e.display_info.user_name
            /\ r.display_name =
                   IF account.some /\ NoNul(account.val) THEN account.val ELSE <<>>

\* C10's case: an export of an entry whose account_name holds a NUL, and
\* one of an entry whose account_name holds none.
C10_Witness ==
    \E j1, j2 \in 1..Len(exported) :
        LET a1 == CatalogEntries[exported[j1].entry].display_info.account_name
            a2 == CatalogEntries[exported[j2].entry].display_info.account_name
        IN  /\ a1.some /\ ~NoNul(a1.val) /\ exported[j1].display_name = <<>>
            /\ a2.some /\ NoNul(a2.val) /\ exported[j2].display_name = a2.val

====
